---- MODULE Spec2Model ----
(***************************************************************************)
(* A model of topic_labeling/preprocessing/nlp_processor.py: the class     *)
(* NLProcessor (constructor, read_process_store, read, process_docs,       *)
(* store) and the static table assembler df_from_docs.                     *)
(*                                                                         *)
(* The spaCy pipeline self.nlp is an external collaborator.  It is         *)
(* deterministic, so it is modelled as a function from the text handed to  *)
(* it to the annotation it returns (a sequence of tokens and a sequence of *)
(* noun chunks) or to Raise when it throws on that text.  Which function   *)
(* is loaded is chosen in the initial state.                               *)
(***************************************************************************)
EXTENDS Integers, Sequences, FiniteSets, TLC

\* ---------------------------------------------------------------- bounds
\* Number of distinct document keys a source table may hold.
MaxDocs == 3
\* Largest number of tokens the pipeline returns for one document.
MaxTokens == 2
\* Largest number of noun chunks the pipeline returns for one document.
MaxChunks == 2

\* ------------------------------------------------------------- constants
\* Python's None (and pandas' null); no text value of the model equals it.
None == "<None>"
\* constants.PUNCT, the part-of-speech category of punctuation.
PUNCT == "PUNCT"
\* The character U+2013 of the literal '[]<>/–%' (TLA+ strings are ASCII).
EnDash == "U+2013"
\* list('[]<>/–%'), the symbols whose part-of-speech tag is forced.
PunctSymbols == {"[", "]", "<", ">", "/", EnDash, "%"}
\* The outcome of self.nlp(text) when the pipeline throws.
Raise == [raised |-> TRUE]

\* ------------------------------------------------------------- documents
DocIds == 1..MaxDocs

\* The row of the ETL table with index key: the three text columns that
\* read() keeps and one more column that it drops.
EtlRow(key) ==
    CASE key % 3 = 1 ->
           [key |-> key, title |-> "Cat Dog", descr |-> None, text |-> None,
            url |-> "u"]
      [] key % 3 = 2 ->
           [key |-> key, title |-> "", descr |-> "Run.", text |-> "",
            url |-> "u"]
      [] OTHER ->
           [key |-> key, title |-> None, descr |-> "", text |-> None,
            url |-> "u"]

\* The ETL tables: every sequence of rows with pairwise distinct keys.
KeySeqs ==
    UNION {{s \in [1..n -> DocIds] :
              \A a, b \in 1..n : a # b => s[a] # s[b]} : n \in 0..MaxDocs}

Tables == {[p \in DOMAIN s |-> EtlRow(s[p])] : s \in KeySeqs}

\* df[[TITLE, DESCRIPTION, TEXT]]: the index and the three text columns.
Project(row) ==
    [key |-> row.key, title |-> row.title, descr |-> row.descr,
     text |-> row.text]

\* filter(None, [title, descr, text]): the fields that are neither None nor
\* empty, in that order.  '\n'.join(...) of them is represented by the
\* sequence itself; it is the empty text exactly when the sequence is empty.
IsTruthy(s) == s # None /\ s # ""

JoinText(doc) == SelectSeq(<<doc.title, doc.descr, doc.text>>, IsTruthy)

\* The non-empty texts the documents of the model can produce.
Texts == {<<"Cat Dog">>, <<"Run.">>}

\* ---------------------------------------------------------- the pipeline
\* A token as the pipeline returns it; token.i is its position minus one.
BaseToken ==
    [text |-> "Cat", lemma_ |-> "cat", iwnlp_lemmas |-> None, pos_ |-> "NOUN",
     is_sent_start |-> FALSE, ent_iob_ |-> "O", ent_type_ |-> ""]

\* spaCy returns a document without tokens for the empty text.
EmptyDoc == [raised |-> FALSE, tokens |-> <<>>, noun_chunks |-> <<>>]

TokenSeqs(S) == UNION {[1..n -> S] : n \in 1..MaxTokens}

\* A noun chunk is a span [start, end) of token positions.
Spans(n) == {sp \in [start : 0..n, end : 0..n] : sp.start < sp.end}

\* The noun chunks of a document of n tokens: up to MaxChunks spans, no span
\* twice, in any order.
ChunkSeqs(n) ==
    UNION {{cs \in [1..c -> Spans(n)] :
              \A x, y \in 1..c : x # y => cs[x] # cs[y]} : c \in 0..MaxChunks}

Docs(tokenSeqs) ==
    {[raised |-> FALSE, tokens |-> ts, noun_chunks |-> <<>>] : ts \in tokenSeqs}

\* Pipelines whose documents differ in the entity IOB tags.
EntTokens ==
    {[BaseToken EXCEPT !.ent_iob_ = t,
                       !.ent_type_ = IF t = "O" THEN "" ELSE "PER"] :
       t \in {"B", "I", "O"}}

EntNlp == [Texts -> Docs(TokenSeqs(EntTokens))]

\* Pipelines whose documents differ in the sentence starts.
SentTokens == {[BaseToken EXCEPT !.is_sent_start = b] : b \in BOOLEAN}

SentNlp == [Texts -> Docs(TokenSeqs(SentTokens))]

\* Pipelines whose documents differ in the lemmas and part-of-speech tags.
TokTokens ==
    {[BaseToken EXCEPT !.lemma_ = l, !.iwnlp_lemmas = w, !.pos_ = p] :
       l \in {"cat", "%"}, w \in {None, "Katze", "["}, p \in {"NOUN", PUNCT}}

TokNlp == [Texts -> Docs({<<t>> : t \in TokTokens})]

\* Pipelines whose documents differ in the noun chunks: MaxTokens tokens and
\* any sequence of at most MaxChunks spans of them, overlapping or not.
NPDocs ==
    {[raised |-> FALSE, tokens |-> [p \in 1..MaxTokens |-> BaseToken],
      noun_chunks |-> cs] : cs \in ChunkSeqs(MaxTokens)}

NPNlp == [Texts -> NPDocs]

\* Pipelines of the orchestrator's runs: on each text the pipeline returns
\* one fixed annotation or throws.
RunDoc ==
    [raised |-> FALSE,
     tokens |-> <<[BaseToken EXCEPT !.ent_iob_ = "B", !.ent_type_ = "PER"],
                  [BaseToken EXCEPT !.text = "Dog", !.lemma_ = "dog"]>>,
     noun_chunks |-> <<[start |-> 0, end |-> 2]>>]

RunNlp == [Texts -> {RunDoc, Raise}]

VARIABLES
    nlp,        \* self.nlp: text -> annotation, or Raise
    logg_arg,   \* the constructor's logg argument: "unset", None or "custom"
    self_logg,  \* self.logg: "unset", "print" or "custom"
    obj,        \* the object: "new", "ready" or "failed"
    log,        \* the lines logged so far, each with the function that got it
    voc_dir,    \* whether VOC_DIR exists on disk
    src_table,  \* the ETL table pickled at file_path
    good_ids,   \* the index of dewiki_good_ids.pickle
    call,       \* the arguments of the running read_process_store call
    pc,         \* the statement the run is at
    error,      \* the exception that ended the run, "none" if none
    text_df,    \* process_docs' text_df
    i,          \* number of documents process_docs has annotated
    chunk_idx,  \* process_docs' chunk_idx
    docs,       \* process_docs' docs
    df,         \* the table df_from_docs returned
    files,      \* the pickles written under NLP_DIR, in order
    trace       \* the effects of the run so far, in order

vars == <<nlp, logg_arg, self_logg, obj, log, voc_dir, src_table, good_ids,
          call, pc, error, text_df, i, chunk_idx, docs, df, files, trace>>

\* ------------------------------------------------------------ operators
Min(a, b) == IF a < b THEN a ELSE b

\* self.nlp(text)
Annotate(text) == IF text = <<>> THEN EmptyDoc ELSE nlp[text]

\* Line 118 without `or token.i == 0`.
SentStartPipelineOnly(token, idx) == IF token.is_sent_start THEN 1 ELSE 0

\* The sentence-start flag of line 118.
SentStart(token, idx) == IF token.is_sent_start \/ idx = 0 THEN 1 ELSE 0

\* Lines 109-113 with chunk_idx reset to 0 for every document.
RECURSIVE NounPhrasesPerDoc(_, _, _)
NounPhrasesPerDoc(chunks, c, k) ==
    IF k = 0 THEN [t \in {} |-> 0]
    ELSE LET prev == NounPhrasesPerDoc(chunks, c, k - 1)
             span == chunks[k].start..(chunks[k].end - 1)
         IN [t \in DOMAIN prev \cup span |->
               IF t \in span THEN k ELSE prev[t]]

\* The dict noun_phrases of lines 109-113 after the first k chunks, chunk_idx
\* being c before the first: each chunk takes the next id and writes it to
\* every token position it covers.
RECURSIVE NounPhrases(_, _, _)
NounPhrases(chunks, c, k) ==
    IF k = 0 THEN [t \in {} |-> 0]
    ELSE LET prev == NounPhrases(chunks, c, k - 1)
             span == chunks[k].start..(chunks[k].end - 1)
         IN [t \in DOMAIN prev \cup span |->
               IF t \in span THEN c + k ELSE prev[t]]

\* noun_phrases.get(t, 0)
Get(np, t) == IF t \in DOMAIN np THEN np[t] ELSE 0

\* The list attr of lines 116-121 for one annotated document.
Attr(key, doc, c) ==
    LET np == NounPhrases(doc.noun_chunks, c, Len(doc.noun_chunks))
    IN [p \in 1..Len(doc.tokens) |->
          LET token == doc.tokens[p]
          IN [hash |-> key, text |-> token.text, lemma |-> token.lemma_,
              iwnlp |-> token.iwnlp_lemmas, pos |-> token.pos_,
              tok_idx |-> p - 1, sent_start |-> SentStart(token, p - 1),
              ent_iob |-> token.ent_iob_, ent_type |-> token.ent_type_,
              noun_phrase |-> Get(np, p - 1)]]

\* Lines 162-164 with the pipeline lemma preferred.
TokenLemmaFirst(r) == IF r.lemma # None THEN r.lemma ELSE r.iwnlp

\* Lines 162-164: the resolved token of a row.
Token(r) == IF r.iwnlp # None THEN r.iwnlp ELSE r.lemma

\* Lines 166-167 with the mask taken on the pipeline lemma.
PosByLemma(r) == IF r.lemma \in PunctSymbols THEN PUNCT ELSE r.pos

\* Lines 166-167: the part-of-speech tag of a row.
Pos(r) == IF Token(r) \in PunctSymbols THEN PUNCT ELSE r.pos

\* Series.cumsum(): the sum of the first k flags.
RECURSIVE CumSum(_, _)
CumSum(flags, k) == IF k = 0 THEN 0 ELSE CumSum(flags, k - 1) + flags[k]

\* Line 169 with the sum taken per document.
SentIdxPerDoc(rows, k) ==
    CumSum([p \in DOMAIN rows |->
              IF rows[p].hash = rows[k].hash THEN rows[p].sent_start ELSE 0], k)

\* Line 169: the sentence index of row k.
SentIdx(rows, k) == CumSum([p \in DOMAIN rows |-> rows[p].sent_start], k)

\* Lines 171-172 without line 173.
EntIdxNotZeroed(rows, k) ==
    CumSum([p \in DOMAIN rows |-> IF rows[p].ent_iob = "B" THEN 1 ELSE 0], k)

\* Lines 171-173: the entity index of row k.
EntIdx(rows, k) ==
    IF rows[k].ent_iob = "O" THEN 0
    ELSE CumSum([p \in DOMAIN rows |->
                   IF rows[p].ent_iob = "B" THEN 1 ELSE 0], k)

\* df_from_docs(docs): the table with the columns FIELDS.
df_from_docs(rows) ==
    [k \in DOMAIN rows |->
       [hash |-> rows[k].hash, tok_idx |-> rows[k].tok_idx,
        sent_idx |-> SentIdx(rows, k), text |-> rows[k].text,
        token |-> Token(rows[k]), pos |-> Pos(rows[k]),
        ent_iob |-> rows[k].ent_iob, ent_idx |-> EntIdx(rows, k),
        ent_type |-> rows[k].ent_type, noun_phrase |-> rows[k].noun_phrase]]

\* 'dewiki' in f
ContainsDewiki(f) == f = "etl/dewiki.pickle"

\* iloc[start:stop] with the row at offset stop included.
IlocInclusive(table, start, stop) ==
    LET hi == IF stop = <<>> THEN Len(table)
              ELSE Min(stop[1] + 1, Len(table))
    IN [p \in 1..(IF hi > start THEN hi - start ELSE 0) |-> table[start + p]]

\* DataFrame.iloc[start:stop] for start >= 0 and stop None or >= 0.
Iloc(table, start, stop) ==
    LET hi == IF stop = <<>> THEN Len(table) ELSE Min(stop[1], Len(table))
    IN [p \in 1..(IF hi > start THEN hi - start ELSE 0) |-> table[start + p]]

\* df[df.index.isin(good_ids.index)]
InGoodIds(doc) == doc.key \in good_ids

\* read(f, start, stop): lines 138-145.
read(f, start, stop) ==
    LET sliced == Iloc([p \in DOMAIN src_table |-> Project(src_table[p])],
                       start, stop)
    IN IF ContainsDewiki(f) THEN SelectSeq(sliced, InGoodIds) ELSE sliced

\* The truth value of `start or stop` (lines 48 and 65).
Slicing(start, stop) == start # 0 \/ (stop # <<>> /\ stop[1] # 0)

\* Lines 65-68: the suffix, <<>> for '_nlp' and <<a, b>> for '_a_b_nlp'.
Suffix(start, stop) ==
    IF Slicing(start, stop) THEN <<start, stop[1] - 1>> ELSE <<>>

\* The loop of process_docs skipping a document the pipeline throws on.
UnwindSkipDocument(stage, idx) ==
    IF stage = "nlp" THEN [pc |-> "process_docs", i |-> idx + 1]
    ELSE [pc |-> "aborted", i |-> idx]

\* No statement of the class catches an exception: one raised at a stage
\* leaves read_process_store at once, whatever document the loop is at.
Unwind(stage, idx) == [pc |-> "aborted", i |-> idx]

Logged(line) == Append(log, [to |-> self_logg, line |-> line])

Did(ev, key) == Append(trace, [ev |-> ev, key |-> key])

\* -------------------------------------------------------- initial states
NoCall ==
    [file_path |-> "", corpus_name |-> "", store |-> FALSE,
     vocab_to_disk |-> FALSE, start |-> 0, stop |-> <<>>]

\* The allow-lists on disk: every key, or every key but one.
GoodIdSets == {DocIds} \cup {DocIds \ {k} : k \in DocIds}

Sources ==
    {[file_path |-> "etl/dewiki.pickle", corpus_name |-> "dewiki"],
     [file_path |-> "etl/news.pickle", corpus_name |-> "news"]}

\* Before NLProcessor(...) is called.
Init ==
    /\ nlp \in RunNlp
    /\ logg_arg = "unset"
    /\ self_logg = "unset"
    /\ obj = "new"
    /\ log = <<>>
    /\ voc_dir \in BOOLEAN
    /\ src_table = <<>>
    /\ good_ids = {}
    /\ call = NoCall
    /\ pc = "idle"
    /\ error = "none"
    /\ text_df = <<>>
    /\ i = 0
    /\ chunk_idx = 0
    /\ docs = <<>>
    /\ df = <<>>
    /\ files = <<>>
    /\ trace = <<>>

\* The frames read() returns for the tables, and those with ascending keys.
Frames == {[p \in DOMAIN t |-> Project(t[p])] : t \in Tables}

AscendingFrames ==
    {t \in Frames : \A p \in 1..(Len(t) - 1) : t[p].key < t[p + 1].key}

\* process_docs(text_df) called on a constructed object whose pipeline is
\* one of pipelines, with one of frames.
InitDocs(pipelines, frames) ==
    /\ nlp \in pipelines
    /\ logg_arg = "custom"
    /\ self_logg = "custom"
    /\ obj = "ready"
    /\ log = <<>>
    /\ voc_dir = FALSE
    /\ src_table = <<>>
    /\ good_ids = {}
    /\ call = NoCall
    /\ pc = "process_docs"
    /\ error = "none"
    /\ text_df \in frames
    /\ i = 0
    /\ chunk_idx = 0
    /\ docs = <<>>
    /\ df = <<>>
    /\ files = <<>>
    /\ trace = <<>>

\* --------------------------------------------------------------- actions
Abort(stage, idx) ==
    /\ pc' = Unwind(stage, idx).pc
    /\ i' = Unwind(stage, idx).i
    /\ error' = stage
    /\ trace' = Did("raise", 0)

\* __init__ with a logging function: lines 25-39.
Construct ==
    /\ obj = "new"
    /\ logg_arg' = "custom"
    /\ self_logg' = "custom"
    /\ log' = log \o [p \in 1..(IF voc_dir THEN 3 ELSE 2) |->
                        [to |-> "custom",
                         line |-> IF p = 1 THEN "loading spacy"
                                  ELSE IF p = 2 /\ voc_dir THEN "reading vocab"
                                  ELSE "loading IWNLPWrapper"]]
    /\ obj' = "ready"
    /\ UNCHANGED <<nlp, voc_dir, src_table, good_ids, call, pc, error,
                   text_df, i, chunk_idx, docs, df, files, trace>>

\* __init__ with logg left at None: line 25 sets self.logg to print, and
\* line 28 calls the parameter logg, which is None: TypeError.
ConstructNoLogg ==
    /\ obj = "new"
    /\ logg_arg' = None
    /\ self_logg' = "print"
    /\ obj' = "failed"
    /\ error' = "TypeError"
    /\ UNCHANGED <<nlp, log, voc_dir, src_table, good_ids, call, pc, text_df,
                   i, chunk_idx, docs, df, files, trace>>

\* __init__ when spacy.load throws at line 29.
ConstructLoadFails ==
    /\ obj = "new"
    /\ logg_arg' = "custom"
    /\ self_logg' = "custom"
    /\ log' = Append(log, [to |-> "custom", line |-> "loading spacy"])
    /\ obj' = "failed"
    /\ error' = "load"
    /\ UNCHANGED <<nlp, voc_dir, src_table, good_ids, call, pc, text_df, i,
                   chunk_idx, docs, df, files, trace>>

\* read_process_store is called: lines 43-45.  What is on disk at file_path
\* and in the allow-list is fixed from here on.
Call ==
    /\ obj = "ready"
    /\ pc = "idle"
    /\ \E src \in Sources, st, vo \in BOOLEAN, a \in 0..MaxDocs,
          b \in {<<>>} \cup {<<n>> : n \in 0..MaxDocs} :
         call' = [file_path |-> src.file_path, corpus_name |-> src.corpus_name,
                  store |-> st, vocab_to_disk |-> vo, start |-> a, stop |-> b]
    /\ src_table' \in Tables
    /\ good_ids' \in GoodIdSets
    /\ log' = Logged("start new corpus")
    /\ pc' = "slicing"
    /\ UNCHANGED <<nlp, logg_arg, self_logg, obj, voc_dir, error, text_df, i,
                   chunk_idx, docs, df, files, trace>>

\* Lines 48-49 when the format succeeds.
FormatSlicing ==
    /\ pc = "slicing"
    /\ ~(Slicing(call.start, call.stop) /\ call.stop = <<>>)
    /\ log' = Logged("reading corpus")
    /\ pc' = "read"
    /\ UNCHANGED <<nlp, logg_arg, self_logg, obj, voc_dir, src_table,
                   good_ids, call, error, text_df, i, chunk_idx, docs, df,
                   files, trace>>

\* Line 48 when start is not 0 and stop is None: '{:d}'.format(None) is a
\* TypeError.
FormatSlicingRaises ==
    /\ pc = "slicing"
    /\ Slicing(call.start, call.stop) /\ call.stop = <<>>
    /\ Abort("TypeError", i)
    /\ UNCHANGED <<nlp, logg_arg, self_logg, obj, log, voc_dir, src_table,
                   good_ids, call, text_df, chunk_idx, docs, df, files>>

\* Lines 50-55 and 93-94: read() returns the frame, process_docs starts.
Read ==
    /\ pc = "read"
    /\ text_df' = read(call.file_path, call.start, call.stop)
    /\ log' = log \o <<[to |-> self_logg, line |-> "using documents"],
                       [to |-> self_logg, line |-> "collect"],
                       [to |-> self_logg, line |-> "start processing"]>>
    /\ trace' = Did("load", 0)
    /\ i' = 0
    /\ chunk_idx' = 0
    /\ docs' = <<>>
    /\ pc' = "process_docs"
    /\ UNCHANGED <<nlp, logg_arg, self_logg, obj, voc_dir, src_table,
                   good_ids, call, error, df, files>>

\* read() throws: the pickle is unreadable or lacks a column.
ReadRaises ==
    /\ pc = "read"
    /\ Abort("read", i)
    /\ UNCHANGED <<nlp, logg_arg, self_logg, obj, log, voc_dir, src_table,
                   good_ids, call, text_df, chunk_idx, docs, df, files>>

\* One pass of the loop of lines 97-123.
ProcessDoc ==
    /\ pc = "process_docs"
    /\ i < Len(text_df)
    /\ LET kv == text_df[i + 1]
           doc == Annotate(JoinText(kv))
       IN /\ ~doc.raised
          /\ chunk_idx' = chunk_idx + Len(doc.noun_chunks)
          /\ docs' = docs \o Attr(kv.key, doc, chunk_idx)
          /\ trace' = Did("annotate", kv.key)
    /\ i' = i + 1
    /\ UNCHANGED <<nlp, logg_arg, self_logg, obj, log, voc_dir, src_table,
                   good_ids, call, pc, error, text_df, df, files>>

\* Line 106 when the pipeline throws on the document.
NlpRaises ==
    /\ pc = "process_docs"
    /\ i < Len(text_df)
    /\ Annotate(JoinText(text_df[i + 1])).raised
    /\ Abort("nlp", i)
    /\ UNCHANGED <<nlp, logg_arg, self_logg, obj, log, voc_dir, src_table,
                   good_ids, call, text_df, chunk_idx, docs, df, files>>

\* Line 125: the loop is over and process_docs returns df_from_docs(docs).
ProcessDocsReturn ==
    /\ pc = "process_docs"
    /\ i = Len(text_df)
    /\ df' = df_from_docs(docs)
    /\ pc' = "assembled"
    /\ UNCHANGED <<nlp, logg_arg, self_logg, obj, log, voc_dir, src_table,
                   good_ids, call, error, text_df, i, chunk_idx, docs, files,
                   trace>>

\* Lines 63-69 and 127-133 with store set.
Store ==
    /\ pc = "assembled"
    /\ call # NoCall
    /\ call.store
    /\ files' = Append(files, [corpus |-> call.corpus_name,
                               suffix |-> Suffix(call.start, call.stop),
                               table |-> df])
    /\ log' = log \o <<[to |-> self_logg, line |-> "collect"],
                       [to |-> self_logg, line |-> "saving"]>>
    /\ trace' = Did("store", 0)
    /\ pc' = "stored"
    /\ UNCHANGED <<nlp, logg_arg, self_logg, obj, voc_dir, src_table,
                   good_ids, call, error, text_df, i, chunk_idx, docs, df>>

\* to_pickle or makedirs throws at lines 130-133.
StoreRaises ==
    /\ pc = "assembled"
    /\ call # NoCall
    /\ call.store
    /\ log' = Logged("collect")
    /\ Abort("store", i)
    /\ UNCHANGED <<nlp, logg_arg, self_logg, obj, voc_dir, src_table,
                   good_ids, call, text_df, chunk_idx, docs, df, files>>

\* Line 63 with store not set.
SkipStore ==
    /\ pc = "assembled"
    /\ call # NoCall
    /\ ~call.store
    /\ log' = Logged("collect")
    /\ pc' = "stored"
    /\ UNCHANGED <<nlp, logg_arg, self_logg, obj, voc_dir, src_table,
                   good_ids, call, error, text_df, i, chunk_idx, docs, df,
                   files, trace>>

\* Lines 70-78 with vocab_to_disk set.
VocabToDisk ==
    /\ pc = "stored"
    /\ call.vocab_to_disk
    /\ voc_dir' = TRUE
    /\ log' = log \o <<[to |-> self_logg, line |-> "writing spacy vocab"],
                       [to |-> self_logg, line |-> "done"]>>
    /\ trace' = Did("vocab", 0)
    /\ pc' = "done"
    /\ UNCHANGED <<nlp, logg_arg, self_logg, obj, src_table, good_ids, call,
                   error, text_df, i, chunk_idx, docs, df, files>>

\* vocab.to_disk or makedirs throws at lines 74-75.
VocabToDiskRaises ==
    /\ pc = "stored"
    /\ call.vocab_to_disk
    /\ log' = Logged("writing spacy vocab")
    /\ Abort("vocab", i)
    /\ UNCHANGED <<nlp, logg_arg, self_logg, obj, voc_dir, src_table,
                   good_ids, call, text_df, chunk_idx, docs, df, files>>

\* Lines 70, 77 and 78 with vocab_to_disk not set.
SkipVocab ==
    /\ pc = "stored"
    /\ ~call.vocab_to_disk
    /\ log' = Logged("done")
    /\ pc' = "done"
    /\ UNCHANGED <<nlp, logg_arg, self_logg, obj, voc_dir, src_table,
                   good_ids, call, error, text_df, i, chunk_idx, docs, df,
                   files, trace>>

\* One NLProcessor and one read_process_store call on it.
Next ==
    \/ Construct
    \/ ConstructNoLogg
    \/ ConstructLoadFails
    \/ Call
    \/ FormatSlicing
    \/ FormatSlicingRaises
    \/ Read
    \/ ReadRaises
    \/ ProcessDoc
    \/ NlpRaises
    \/ ProcessDocsReturn
    \/ Store
    \/ StoreRaises
    \/ SkipStore
    \/ VocabToDisk
    \/ VocabToDiskRaises
    \/ SkipVocab

Spec == Init /\ [][Next]_vars

\* One process_docs call.
NextDocs == ProcessDoc \/ ProcessDocsReturn

SpecEnt == InitDocs(EntNlp, Frames) /\ [][NextDocs]_vars

SpecSent == InitDocs(SentNlp, Frames) /\ [][NextDocs]_vars

SpecTok == InitDocs(TokNlp, Frames) /\ [][NextDocs]_vars

SpecNP == InitDocs(NPNlp, AscendingFrames) /\ [][NextDocs]_vars

\* ---------------------------------------------------------------- claims
Max(S) == CHOOSE m \in S : \A x \in S : x <= m

\* process_docs has returned its table.
Assembled == pc = "assembled"

\* The position in text_df of the document with the key.
DocPos(key) == CHOOSE j \in DOMAIN text_df : text_df[j].key = key

\* The annotation the pipeline returned for document j of text_df.
DocOf(j) == Annotate(JoinText(text_df[j]))

\* The documents of text_df the pipeline returned tokens for.
NonEmptyDocs == {j \in DOMAIN text_df : Len(DocOf(j).tokens) > 0}

Begins(k) == {b \in 1..k : df[b].ent_iob = "B"}

\* C1, as amended: entity index is 0 on every Outside row; on a row that is
\* not Outside it is 0 exactly when no Begin row precedes it in the batch;
\* on a Begin row it is greater than on every earlier row that is not
\* Outside; on an Inside row after a Begin row it equals the entity index of
\* the most recent Begin row.
C1_EntityIndex ==
    Assembled =>
      \A k \in DOMAIN df :
        /\ df[k].ent_iob = "O" => df[k].ent_idx = 0
        /\ df[k].ent_iob # "O" => (df[k].ent_idx = 0 <=> Begins(k) = {})
        /\ df[k].ent_iob = "B" =>
             \A e \in 1..(k - 1) :
               df[e].ent_iob # "O" => df[e].ent_idx < df[k].ent_idx
        /\ (df[k].ent_iob = "I" /\ Begins(k) # {}) =>
             df[k].ent_idx = df[Max(Begins(k))].ent_idx

\* C1 as stated: entity index is 0 if and only if the row is Outside; on a
\* Begin row it is greater than on every earlier row that is not Outside; on
\* any other row that is not Outside it equals the entity index of the most
\* recent Begin row.
C1_AsStated ==
    Assembled =>
      \A k \in DOMAIN df :
        /\ df[k].ent_idx = 0 <=> df[k].ent_iob = "O"
        /\ df[k].ent_iob = "B" =>
             \A e \in 1..(k - 1) :
               df[e].ent_iob # "O" => df[e].ent_idx < df[k].ent_idx
        /\ df[k].ent_iob = "I" =>
             /\ Begins(k) # {}
             /\ df[k].ent_idx = df[Max(Begins(k))].ent_idx

\* A table of two documents: an Inside row that no Begin row precedes, then
\* a Begin row, then an Outside row, and a Begin row of the other document
\* with entity index 2.
C1_Witness ==
    /\ Assembled
    /\ \E a, b, c, d \in DOMAIN df :
         /\ a < b /\ b < d /\ a < c
         /\ df[a].ent_iob = "I" /\ Begins(a) = {}
         /\ df[b].ent_iob = "B" /\ df[b].ent_idx = 1
         /\ df[c].ent_iob = "O"
         /\ df[d].ent_iob = "B" /\ df[d].ent_idx = 2
         /\ df[d].hash # df[b].hash

\* The number of noun chunks the pipeline emitted for documents 1..j.
RECURSIVE ChunksUpTo(_)
ChunksUpTo(j) ==
    IF j = 0 THEN 0 ELSE ChunksUpTo(j - 1) + Len(DocOf(j).noun_chunks)

\* The chunks of document j that cover token position t.
Covering(j, t) ==
    {c \in DOMAIN DocOf(j).noun_chunks :
       /\ DocOf(j).noun_chunks[c].start <= t
       /\ t < DocOf(j).noun_chunks[c].end}

\* The noun-phrase group id of token t of document j.
NounPhraseOf(j, t) ==
    df[CHOOSE k \in DOMAIN df :
         df[k].hash = text_df[j].key /\ df[k].tok_idx = t].noun_phrase

\* Every chunk of the batch, as <<document, position among its chunks>>.
AllChunks ==
    {jc \in (DOMAIN text_df) \X (1..MaxChunks) :
       jc[2] \in DOMAIN DocOf(jc[1]).noun_chunks}

EmittedBefore(x, y) == x[1] < y[1] \/ (x[1] = y[1] /\ x[2] < y[2])

SpanOf(jc) ==
    DocOf(jc[1]).noun_chunks[jc[2]].start..
      (DocOf(jc[1]).noun_chunks[jc[2]].end - 1)

\* C2, as amended: a token of no chunk has noun-phrase group id 0; the
\* chunks are numbered 1, 2, 3, ... in emission order across the whole
\* batch, never reset between documents; a token carries the number of the
\* last chunk emitted for its document that covers it.
C2_NounPhraseIds ==
    Assembled =>
      \A k \in DOMAIN df :
        LET j == DocPos(df[k].hash)
            cov == Covering(j, df[k].tok_idx)
        IN df[k].noun_phrase =
             IF cov = {} THEN 0 ELSE ChunksUpTo(j - 1) + Max(cov)

\* C2 as stated: a token of no chunk has id 0; all tokens of one chunk carry
\* the same nonzero id; of two distinct chunks of the batch the one emitted
\* later carries the greater id.
C2_AsStated ==
    Assembled =>
      /\ \A k \in DOMAIN df :
           Covering(DocPos(df[k].hash), df[k].tok_idx) = {} =>
             df[k].noun_phrase = 0
      /\ \A x \in AllChunks :
           \A t, u \in SpanOf(x) :
             /\ NounPhraseOf(x[1], t) # 0
             /\ NounPhraseOf(x[1], t) = NounPhraseOf(x[1], u)
      /\ \A x, y \in AllChunks :
           EmittedBefore(x, y) =>
             \A t \in SpanOf(x), u \in SpanOf(y) :
               NounPhraseOf(x[1], t) < NounPhraseOf(y[1], u)

\* A table of two documents with chunks: the second document's chunks
\* continue the numbering of the first, one token is in no chunk and one is
\* covered by two chunks.
C2_Witness ==
    /\ Assembled
    /\ \E j1, j2 \in NonEmptyDocs :
         /\ j1 < j2
         /\ Len(DocOf(j1).noun_chunks) = MaxChunks
         /\ Len(DocOf(j2).noun_chunks) > 0
         /\ \E t \in 0..(MaxTokens - 1) : Cardinality(Covering(j1, t)) = 2
         /\ \E t \in 0..(MaxTokens - 1) :
              /\ Covering(j2, t) # {}
              /\ NounPhraseOf(j2, t) > MaxChunks
    /\ \E k \in DOMAIN df : df[k].noun_phrase = 0

\* C3: the sentence index of the first row equals its sentence-start flag;
\* from a row to the next it grows by 1 when the next row's sentence-start
\* flag is set and by 0 otherwise, so it never decreases, whatever document
\* the rows belong to.
C3_SentenceIndex ==
    Assembled =>
      /\ Len(df) = Len(docs)
      /\ df # <<>> => df[1].sent_idx = docs[1].sent_start
      /\ \A k \in 1..(Len(df) - 1) :
           /\ df[k].sent_idx <= df[k + 1].sent_idx
           /\ df[k + 1].sent_idx - df[k].sent_idx =
                (IF docs[k + 1].sent_start = 1 THEN 1 ELSE 0)

\* A table of two documents: a row whose flag is not set, and the first row
\* of the second document with sentence index at least 2.
C3_Witness ==
    /\ Assembled
    /\ \E k \in 1..(Len(df) - 1) :
         /\ df[k].hash # df[k + 1].hash
         /\ df[k + 1].sent_idx >= 2
    /\ \E k \in DOMAIN docs : docs[k].sent_start = 0

\* C10: the rows are grouped by document in the order of text_df, each
\* document's tokens in the order the pipeline emitted them, and every row
\* of a later document has a greater sentence index than every row of an
\* earlier document.
C10_DocumentsApart ==
    Assembled =>
      /\ \A j \in DOMAIN text_df :
           \A t \in 0..(Len(DocOf(j).tokens) - 1) :
             \E k \in DOMAIN df :
               /\ df[k].hash = text_df[j].key
               /\ df[k].tok_idx = t
               /\ df[k].text = DocOf(j).tokens[t + 1].text
      /\ \A a, b \in DOMAIN df :
           a < b =>
             /\ DocPos(df[a].hash) <= DocPos(df[b].hash)
             /\ df[a].hash = df[b].hash => df[a].tok_idx < df[b].tok_idx
             /\ df[a].hash # df[b].hash => df[a].sent_idx < df[b].sent_idx

\* A table of two documents with tokens, the pipeline not having marked the
\* first token of the second as a sentence start.
C10_Witness ==
    /\ Assembled
    /\ \E j1, j2 \in NonEmptyDocs :
         /\ j1 < j2
         /\ ~DocOf(j2).tokens[1].is_sent_start
         /\ Len(DocOf(j1).tokens) = MaxTokens

\* C8: a row whose resolved token is one of the seven symbols has the
\* punctuation tag, whatever tag the pipeline assigned.
C8_PunctuationTag ==
    Assembled =>
      \A k \in DOMAIN df : df[k].token \in PunctSymbols => df[k].pos = PUNCT

\* A row whose dictionary lemma is a symbol, whose pipeline lemma is not and
\* which the pipeline did not tag as punctuation.
C8_Witness ==
    /\ Assembled
    /\ \E k \in DOMAIN df :
         /\ docs[k].iwnlp \in PunctSymbols
         /\ docs[k].lemma \notin PunctSymbols
         /\ docs[k].pos # PUNCT
         /\ df[k].pos = PUNCT

\* C9: the resolved token is the dictionary lemma where there is one and the
\* pipeline lemma elsewhere, and no row is without a resolved token.
C9_ResolvedToken ==
    Assembled =>
      /\ Len(df) = Len(docs)
      /\ \A k \in DOMAIN df :
           /\ docs[k].iwnlp # None => df[k].token = docs[k].iwnlp
           /\ docs[k].iwnlp = None => df[k].token = docs[k].lemma
           /\ df[k].token # None

\* A table with a row that has a dictionary lemma and a row that has none.
C9_Witness ==
    /\ Assembled
    /\ \E a, b \in DOMAIN df :
         /\ docs[a].iwnlp # None /\ docs[a].iwnlp # docs[a].lemma
         /\ docs[b].iwnlp = None

\* read() has returned the frame of the running call.
Loaded == trace # <<>> /\ trace[1].ev = "load"

\* The offset (from 1) in the source table of the row with the key.
Offset(key) == CHOOSE q \in DOMAIN src_table : src_table[q].key = key

\* The precondition of C5: 0 <= start <= stop <= N, stop given.
InRange ==
    /\ call.stop # <<>>
    /\ call.start <= call.stop[1]
    /\ call.stop[1] <= Len(src_table)

SameRecord(doc, row) ==
    /\ doc.key = row.key
    /\ doc.title = row.title
    /\ doc.descr = row.descr
    /\ doc.text = row.text

\* Whether read() keeps a document of the range: any, unless the path
\* contains 'dewiki', and then those of the allow-list.
Kept(key) == ContainsDewiki(call.file_path) => key \in good_ids

\* C5, as amended: for offsets 0 <= start <= stop <= N, read returns, in
\* source table order and each with its identifier and its three text
\* values, the records at the offsets [start, stop): all stop - start of
\* them when the path does not contain 'dewiki', and when it does those
\* whose identifier is in the allow-list dewiki_good_ids.
C5_ReadRange ==
    (Loaded /\ InRange) =>
      /\ \A p \in DOMAIN text_df :
           LET q == Offset(text_df[p].key)
           IN /\ call.start < q /\ q <= call.stop[1]
              /\ SameRecord(text_df[p], src_table[q])
              /\ Kept(text_df[p].key)
      /\ \A p \in 1..(Len(text_df) - 1) :
           Offset(text_df[p].key) < Offset(text_df[p + 1].key)
      /\ \A q \in (call.start + 1)..call.stop[1] :
           Kept(src_table[q].key) =>
             \E p \in DOMAIN text_df : text_df[p].key = src_table[q].key
      /\ ~ContainsDewiki(call.file_path) =>
           Len(text_df) = call.stop[1] - call.start

\* C5 as stated: for any source location and offsets 0 <= start <= stop <= N,
\* read returns exactly the stop - start records at the offsets
\* [start, stop), in source table order.
C5_AsStated ==
    (Loaded /\ InRange) =>
      /\ Len(text_df) = call.stop[1] - call.start
      /\ \A p \in DOMAIN text_df :
           SameRecord(text_df[p], src_table[call.start + p])

\* A read of the offsets [1, 3) of a dewiki table of three documents, one
\* of the two being off the allow-list.
C5_Witness ==
    /\ Loaded
    /\ ContainsDewiki(call.file_path)
    /\ call.start = 1 /\ call.stop = <<3>> /\ Len(src_table) = 3
    /\ Len(text_df) = 1
    /\ text_df[1].key = src_table[3].key

\* The run is over, and neither the loader, the pipeline nor the pickle
\* writer threw.
RanToStore ==
    \/ pc = "done"
    \/ pc = "aborted" /\ error \in {"TypeError", "vocab"}

\* C4: every run with store set whose offsets the loader accepts writes the
\* token table under the corpus name with the suffix '_nlp' for the full
\* corpus and '_<start>_<stop-1>_nlp' for a slice.
C4_StoreSuffix ==
    (RanToStore /\ call.store) =>
      /\ Len(files) = 1
      /\ files[1].corpus = call.corpus_name
      /\ (call.start = 0 /\ call.stop = <<>>) => files[1].suffix = <<>>
      /\ call.stop # <<>> =>
           files[1].suffix = <<call.start, call.stop[1] - 1>>

\* C6: an NLProcessor constructed without a logging function is constructed
\* all the same, and its progress lines go to the console.
C6_DefaultLogger ==
    logg_arg = None =>
      /\ obj = "ready"
      /\ log # <<>>
      /\ \A p \in DOMAIN log : log[p].to = "print"

Events(ev) == {p \in DOMAIN trace : trace[p].ev = ev}

IsAnnotate(e) == e.ev = "annotate"

Rank(ev) ==
    CASE ev = "load" -> 1 [] ev = "annotate" -> 2 [] ev = "store" -> 3
      [] ev = "vocab" -> 4 [] OTHER -> 5

\* C7: the effects of a run come in the order load, one annotation per
\* document in table order, store, vocabulary; the table is written at most
\* once and only when every document of the frame is annotated; an
\* exception is the last effect of its run, and after one of the loader or
\* of the pipeline no table is written, no vocabulary persisted and no
\* further document annotated.
C7_RunOrder ==
    /\ \A a, b \in DOMAIN trace :
         a < b =>
           /\ Rank(trace[a].ev) <= Rank(trace[b].ev)
           /\ Rank(trace[a].ev) = Rank(trace[b].ev) => trace[a].ev = "annotate"
    /\ (trace # <<>> /\ trace[1].ev # "raise") => trace[1].ev = "load"
    /\ LET ann == SelectSeq(trace, IsAnnotate)
       IN /\ Len(ann) <= Len(text_df)
          /\ \A p \in DOMAIN ann : ann[p].key = text_df[p].key
          /\ Events("store") # {} => Len(ann) = Len(text_df)
    /\ Len(files) = Cardinality(Events("store"))
    /\ Len(files) <= 1
    /\ \A p \in Events("raise") : p = Len(trace) /\ pc = "aborted"
    /\ error \in {"read", "nlp"} =>
         /\ pc = "aborted"
         /\ files = <<>>
         /\ Events("store") = {} /\ Events("vocab") = {}
         /\ Events("raise") # {}
    /\ pc = "done" =>
         /\ Events("load") = {1}
         /\ Cardinality(Events("annotate")) = Len(text_df)
         /\ call.store <=> Events("store") # {}
         /\ call.vocab_to_disk <=> Events("vocab") # {}

\* A run with store and vocab_to_disk set in which the pipeline throws on
\* the second of three documents.
C7_Witness ==
    /\ pc = "aborted" /\ error = "nlp"
    /\ call.store /\ call.vocab_to_disk
    /\ Len(text_df) = 3
    /\ Cardinality(Events("annotate")) = 1
====
